---- MODULE Spec2Model ----
(***************************************************************************)
(* Model of ConnectionManager (backend/app/websockets/manager.py): the     *)
(* registry of WebSocket connections, its rooms, and the send/broadcast    *)
(* coroutines.  The manager runs on one asyncio event loop: code between   *)
(* two awaits that really suspend is atomic, and the only awaits that      *)
(* suspend inside the manager are websocket.accept() (before connect       *)
(* touches any state) and websocket.send_text().  A coroutine that is      *)
(* suspended in send_text is an entry of `tasks` with pc = "send".         *)
(* The handlers of inbound messages are modelled as well:                  *)
(* handle_websocket_message (manager.py), which goes through the manager,  *)
(* and the receive loop of websocket_endpoint with process_websocket_message *)
(* (backend/app/api/v1/endpoints/websockets.py), which writes to its own   *)
(* WebSocket.  A message that has been read and whose handler has not run  *)
(* yet is an entry of `tasks` with pc = "received".                        *)
(***************************************************************************)
EXTENDS Integers, FiniteSets, Sequences, TLC

\* ---- bounds ----
MaxTransports == 2        \* WebSocket objects that ever connect (Spec)
MaxFanTransports == 4     \* WebSocket objects that ever connect (SpecFan)
MaxInterleave == 1        \* registry changes by other coroutines while one is suspended in send_text
MaxReapTransports == 3    \* WebSocket objects that ever connect (SpecReap)

\* ---- universe ----
Users == {"A", "B"}        \* identified user ids (Spec)
FanUsers == {"A", "B", "C"}  \* identified user ids (SpecFan)
Rooms == {"r1", "r2"}
Tasks == {"k1"}           \* coroutines that can be suspended in send_text
None == ""                \* Python None / falsy user_id
Transports == 1..MaxFanTransports

\* f"anon_{n}" (manager.py:33)
AnonNames == <<"anon_0", "anon_1", "anon_2", "anon_3", "anon_4", "anon_5", "anon_6", "anon_7">>
AnonKey(n) == AnonNames[n + 1]

VARIABLES
    active_connections,   \* dict key -> transport          (manager.py:18)
    user_rooms,           \* dict user_id -> set of rooms    (manager.py:19)
    room_connections,     \* dict room_id -> set of user ids (manager.py:20)
    transport_status,     \* per WebSocket object: fresh / registered / superseded / closed
    transport_key,        \* per WebSocket object: the key connect registered it under
    stalled,              \* transports whose send_text never completes
    tasks                 \* the in-flight send/broadcast coroutines

vars == <<active_connections, user_rooms, room_connections, transport_status,
          transport_key, stalled, tasks>>

\* ---- small helpers ----
Range(f) == {f[x] : x \in DOMAIN f}
Without(f, k) == [x \in (DOMAIN f) \ {k} |-> f[x]]
With(f, k, v) == [x \in (DOMAIN f) \cup {k} |-> IF x = k THEN v ELSE f[x]]
EmptyMap == [x \in {} |-> None]

\* the three dicts of the manager as one value
Registry == [ac |-> active_connections, ur |-> user_rooms, rc |-> room_connections]

\* get_connection_count (manager.py:169-171)
get_connection_count == Cardinality(DOMAIN active_connections)
\* get_room_users (manager.py:173-175)
get_room_users(r) == IF r \in DOMAIN room_connections THEN room_connections[r] ELSE {}
\* get_user_rooms (manager.py:177-179)
get_user_rooms(u) == IF u \in DOMAIN user_rooms THEN user_rooms[u] ELSE {}

\* ---- the registry operations as functions of the three dicts ----

\* connect, after `await websocket.accept()` (manager.py:27-35)
connect_keep_first(reg, ws, user_id) ==
    IF user_id # None
    THEN IF user_id \in DOMAIN reg.ac
         THEN [reg EXCEPT !.ur = With(reg.ur, user_id, {})]
         ELSE [reg EXCEPT !.ac = With(reg.ac, user_id, ws),
                          !.ur = With(reg.ur, user_id, {})]
    ELSE [reg EXCEPT !.ac = With(reg.ac, AnonKey(Cardinality(DOMAIN reg.ac)), ws)]

connect(reg, ws, user_id) ==
    IF user_id # None
    THEN [reg EXCEPT !.ac = With(reg.ac, user_id, ws),
                     !.ur = With(reg.ur, user_id, {})]
    ELSE [reg EXCEPT !.ac = With(reg.ac, AnonKey(Cardinality(DOMAIN reg.ac)), ws)]

\* the key connect registers the WebSocket under (manager.py:28, 33-34)
connect_key(reg, user_id) ==
    IF user_id # None THEN user_id ELSE AnonKey(Cardinality(DOMAIN reg.ac))

drop_clear_rooms(rc, user_id, rooms) ==
    [r \in {x \in DOMAIN rc : x \notin rooms \/ user_id \notin rc[x]} |-> rc[r]]

drop_keep_empty(rc, user_id, rooms) ==
    [r \in DOMAIN rc |-> IF r \in rooms THEN rc[r] \ {user_id} ELSE rc[r]]

\* room_connections after discarding user_id from the rooms in `rooms`,
\* deleting each room that becomes empty (manager.py:42-46, 77-80)
drop_from_rooms(rc, user_id, rooms) ==
    LET hit == {r \in DOMAIN rc : r \in rooms}
        keep == {r \in DOMAIN rc : r \notin hit \/ rc[r] \ {user_id} # {}}
    IN [r \in keep |-> IF r \in hit THEN rc[r] \ {user_id} ELSE rc[r]]

\* disconnect (manager.py:37-57)
disconnect(reg, ws, user_id) ==
    IF user_id # None /\ user_id \in DOMAIN reg.ac
    THEN [ac |-> Without(reg.ac, user_id),
          ur |-> Without(reg.ur, user_id),
          rc |-> IF user_id \in DOMAIN reg.ur
                 THEN drop_from_rooms(reg.rc, user_id, reg.ur[user_id])
                 ELSE reg.rc]
    ELSE LET found == {c \in DOMAIN reg.ac : reg.ac[c] = ws}
         IN IF found = {} THEN reg
            ELSE [reg EXCEPT !.ac = Without(reg.ac, CHOOSE c \in found : TRUE)]

\* join_room (manager.py:59-70)
join_room(reg, user_id, room_id) ==
    [reg EXCEPT
        !.ur = With(reg.ur, user_id,
                    (IF user_id \in DOMAIN reg.ur THEN reg.ur[user_id] ELSE {}) \cup {room_id}),
        !.rc = With(reg.rc, room_id,
                    (IF room_id \in DOMAIN reg.rc THEN reg.rc[room_id] ELSE {}) \cup {user_id})]

leave_room_drop_room(reg, user_id, room_id) ==
    [reg EXCEPT
        !.ur = IF user_id \in DOMAIN reg.ur
               THEN [reg.ur EXCEPT ![user_id] = @ \ {room_id}]
               ELSE reg.ur,
        !.rc = [r \in DOMAIN reg.rc \ {room_id} |-> reg.rc[r]]]

leave_room_keep_reverse(reg, user_id, room_id) ==
    [reg EXCEPT !.rc = drop_from_rooms(reg.rc, user_id, {room_id})]

\* leave_room (manager.py:72-82)
leave_room(reg, user_id, room_id) ==
    [reg EXCEPT
        !.ur = IF user_id \in DOMAIN reg.ur
               THEN [reg.ur EXCEPT ![user_id] = @ \ {room_id}]
               ELSE reg.ur,
        !.rc = drop_from_rooms(reg.rc, user_id, {room_id})]

\* ---- WebSocket objects ----
\* what became of each WebSocket object: "fresh" (never passed to connect),
\* "registered" (a value of active_connections), "superseded" (its key was
\* overwritten by a later connect), "closed" (removed by disconnect)
NewStatus(status, ac2, how) ==
    [t \in Transports |->
        IF t \in Range(ac2) THEN "registered"
        ELSE IF status[t] = "registered" THEN how
        ELSE status[t]]

Fresh == {t \in Transports : transport_status[t] = "fresh"}
NextFresh == CHOOSE t \in Fresh : \A o \in Fresh : t <= o

\* ---- coroutines suspended in send_text ----
\* the dicts of a fresh manager (manager.py:18-20)
NoRegistry == [ac |-> EmptyMap, ur |-> EmptyMap, rc |-> EmptyMap]

\* no message built by the manager: the caller passes a finished text
NoMessage == [type |-> None]

\* datetime.utcnow().isoformat() and the dict a caller hands to a typed sender
utcnow == "utcnow"
Payloads == {[id |-> 1]}

\* An argument that is a dict where the manager expects a room id: it cannot
\* be a key of room_connections (TypeError: unhashable type: 'dict').
Dicts == {"{type: project_updated}"}

\* The record of one call: what it was called with (op, user, room, exclude,
\* ws, inbound; before is the registry at the call), where it is suspended
\* (pc, cur, curws, stage, the state of its for loop) and what it has done so
\* far (sent, resent, writes, disconnected_users, result).
IdleTask ==
    [op |-> "idle", pc |-> "idle", user |-> None, room |-> None, exclude |-> None,
     cur |-> None, curws |-> 0,
     pending |-> {}, used |-> 0, yielded |-> 0, detached |-> FALSE,
     disconnected_users |-> {},
     sent |-> {}, resent |-> {},
     result |-> "none", targets |-> {}, mutations |-> 0,
     ws |-> 0, before |-> NoRegistry, inbound |-> None, stage |-> None, writes |-> <<>>,
     token |-> None, message |-> NoMessage, caller |-> None]

\* What a suspended for-loop sees of a change of the collection it iterates
\* (manager.py:99 iterates the live set room_connections[room_id],
\* manager.py:117 the live dict active_connections).  `pending` is what the
\* iterator has not reached yet: a removed element is no longer reached, an
\* element added to a set lands ahead of or behind the iterator depending on
\* its hash (`ahead`), a key added to a dict is appended.  `del
\* room_connections[room_id]` leaves the iterator on the emptied, detached set.
Observe(t, reg, reg2, ahead) ==
    IF t.pc # "send" THEN t
    ELSE LET base == [t EXCEPT !.mutations = IF reg # reg2 THEN @ + 1 ELSE @]
         IN CASE t.op = "broadcast_to_room" /\ ~t.detached ->
                   IF t.room \notin DOMAIN reg2.rc
                   THEN [base EXCEPT !.detached = TRUE, !.pending = {}]
                   ELSE LET old == reg.rc[t.room]
                            new == reg2.rc[t.room]
                        IN [base EXCEPT !.pending =
                               (@ \ (old \ new)) \cup (IF ahead THEN new \ old ELSE {})]
              [] t.op = "broadcast" ->
                   [base EXCEPT !.pending =
                       (@ \ (DOMAIN reg.ac \ DOMAIN reg2.ac)) \cup (DOMAIN reg2.ac \ DOMAIN reg.ac)]
              [] OTHER -> base

NoneDone == \A k \in Tasks : tasks[k].pc # "done"

\* no suspended coroutine has seen n registry changes yet
MayInterleave(n) == \A k \in Tasks : tasks[k].pc = "send" => tasks[k].mutations < n

\* the registry becomes reg2 by a step of the event loop that is not a step of
\* a suspended coroutine
Mutate(reg2, how, keys2) ==
    /\ transport_key' = keys2
    /\ active_connections' = reg2.ac
    /\ user_rooms' = reg2.ur
    /\ room_connections' = reg2.rc
    /\ transport_status' = NewStatus(transport_status, reg2.ac, how)
    /\ \E ahead \in BOOLEAN :
          tasks' = [k \in Tasks |-> Observe(tasks[k], Registry, reg2, ahead)]
    /\ UNCHANGED stalled

\* ---- actions: the operations without a suspension point ----
\* (limit: WebSocket objects available; n: how many registry changes a
\* suspended coroutine may see)
Connect(user_id, limit, n) ==
    /\ NoneDone
    /\ MayInterleave(n)
    /\ Fresh # {}
    /\ NextFresh <= limit
    /\ Mutate(connect(Registry, NextFresh, user_id), "superseded",
              [transport_key EXCEPT ![NextFresh] = connect_key(Registry, user_id)])

Disconnect(ws, user_id, n) ==
    /\ NoneDone
    /\ MayInterleave(n)
    /\ transport_status[ws] # "fresh"
    /\ Mutate(disconnect(Registry, ws, user_id), "closed", transport_key)

JoinRoom(user_id, room_id, n) ==
    /\ NoneDone
    /\ MayInterleave(n)
    /\ Mutate(join_room(Registry, user_id, room_id), "closed", transport_key)

\* join_room called for an identity that holds a connection
JoinRoomConnected(user_id, room_id, n) ==
    /\ user_id \in DOMAIN active_connections
    /\ JoinRoom(user_id, room_id, n)

LeaveRoom(user_id, room_id, n) ==
    /\ NoneDone
    /\ MayInterleave(n)
    /\ Mutate(leave_room(Registry, user_id, room_id), "closed", transport_key)

\* the peer of one connected WebSocket stops reading: from now on a send_text
\* on it never completes
Stall(ws) ==
    /\ NoneDone
    /\ transport_status[ws] = "registered"
    /\ stalled = {}
    /\ stalled' = stalled \cup {ws}
    /\ UNCHANGED <<active_connections, user_rooms, room_connections, transport_status,
                   transport_key, tasks>>

\* ---- actions: the coroutines that await send_text ----

\* a step of coroutine k: its record becomes t and the registry reg2
Step(k, t, reg2) ==
    /\ active_connections' = reg2.ac
    /\ user_rooms' = reg2.ur
    /\ room_connections' = reg2.rc
    /\ transport_status' = NewStatus(transport_status, reg2.ac, "closed")
    /\ \E ahead \in BOOLEAN :
          tasks' = [j \in Tasks |-> IF j = k THEN t
                                    ELSE Observe(tasks[j], Registry, reg2, ahead)]
    /\ UNCHANGED <<stalled, transport_key>>

\* `await ws.send_text(message)` is called for key u: the write is issued and
\* the coroutine is suspended
Issue(t, u) ==
    [t EXCEPT !.pc = "send", !.cur = u, !.curws = active_connections[u],
              !.sent = @ \cup {u},
              !.resent = @ \cup (IF u \in t.sent THEN {u} ELSE {})]

\* the coroutine returns or raises
Finished(t, result) == [t EXCEPT !.pc = "done", !.cur = None, !.curws = 0, !.result = result]

\* the `for user_id in disconnected_users` loops (manager.py:108-109, 125-126)
RECURSIVE DisconnectAll(_, _)
DisconnectAll(reg, S) ==
    IF S = {} THEN reg
    ELSE LET u == CHOOSE x \in S : TRUE
         IN DisconnectAll(disconnect(reg, reg.ac[u], u), S \ {u})

\* The cleanup after the loop.  `self.active_connections[user_id]` raises
\* KeyError for an id that is registered no longer; the ids the loop reached
\* before that one (set order) are already disconnected.  With last_line,
\* manager.py:111 then reads room_connections[room_id].
Cleanup(k, t, last_line) ==
    LET D == t.disconnected_users
        missing == D \ DOMAIN active_connections
    IN IF missing = {}
       THEN LET reg2 == DisconnectAll(Registry, D)
            IN Step(k, Finished(t, IF last_line /\ t.room \notin DOMAIN reg2.rc
                                    THEN "KeyError" ELSE "ok"), reg2)
       ELSE \E cleaned \in SUBSET (D \ missing) :
               Step(k, Finished(t, "KeyError"), DisconnectAll(Registry, cleaned))

\* -- send_personal_message (manager.py:84-92) --
SendPersonalMessageUnchecked(k, user_id) ==
    /\ NoneDone
    /\ tasks[k].pc = "idle"
    /\ LET t == [IdleTask EXCEPT !.op = "send_personal_message", !.user = user_id,
                                 !.targets = {user_id} \cap DOMAIN active_connections]
       IN IF user_id \in DOMAIN active_connections
          THEN Step(k, Issue(t, user_id), Registry)
          ELSE Step(k, Finished(t, "KeyError"), Registry)

SendPersonalMessageFrom(k, caller, message, user_id) ==
    /\ NoneDone
    /\ tasks[k].pc = "idle"
    /\ LET t == [IdleTask EXCEPT !.op = "send_personal_message", !.user = user_id,
                                 !.caller = caller, !.message = message,
                                 !.targets = {user_id} \cap DOMAIN active_connections]
       IN IF user_id \in DOMAIN active_connections
          THEN Step(k, Issue(t, user_id), Registry)
          ELSE Step(k, Finished(t, "ok"), Registry)

SendPersonalMessage(k, user_id) ==
    SendPersonalMessageFrom(k, None, NoMessage, user_id)

SendPersonalResumeUnregister(k, ok) ==
    LET t == tasks[k]
    IN IF ok THEN Step(k, Finished(t, "ok"), Registry)
       ELSE Step(k, Finished([t EXCEPT !.disconnected_users = @ \cup {t.cur}], "ok"),
                 [Registry EXCEPT !.ac = [x \in DOMAIN @ \ {t.user} |-> @[x]]])

SendPersonalResume(k, ok) ==
    LET t == tasks[k]
    IN IF ok THEN Step(k, Finished(t, "ok"), Registry)
       ELSE LET t1 == [t EXCEPT !.disconnected_users = @ \cup {t.cur}]
            IN IF t.user \in DOMAIN active_connections
               THEN Step(k, Finished(t1, "ok"),
                         disconnect(Registry, active_connections[t.user], t.user))
               ELSE Step(k, Finished(t1, "KeyError"), Registry)

\* -- broadcast_to_room (manager.py:94-111) --
EligibleNoExclude(t) == {u \in t.pending : u \in DOMAIN active_connections}

\* the members the loop of manager.py:99-100 writes to
Eligible(t) == {u \in t.pending : u # t.exclude /\ u \in DOMAIN active_connections}

all_connected(reg, room_id) == DOMAIN reg.ac

\* the collection the loop of manager.py:99 iterates
room_members(reg, room_id) == reg.rc[room_id]

\* the for loop from one next() up to the next send_text or the end of the loop
RoomLoop(k, t) ==
    IF t.detached \/ Cardinality(room_members(Registry, t.room)) # t.used
    THEN Step(k, Finished(t, "RuntimeError"), Registry)
    ELSE \/ \E u \in Eligible(t), skipped \in SUBSET (t.pending \ Eligible(t)) :
               Step(k, Issue([t EXCEPT !.pending = @ \ (skipped \cup {u})], u), Registry)
         \/ /\ Eligible(t) = {}
            /\ Cleanup(k, [t EXCEPT !.pending = {}], TRUE)

\* manager.py:96 `room_id in self.room_connections` hashes room_id first
BroadcastToRoomFrom(k, caller, message, room_id, exclude_user) ==
    /\ NoneDone
    /\ tasks[k].pc = "idle"
    /\ LET t == [IdleTask EXCEPT !.op = "broadcast_to_room", !.room = room_id,
                                 !.caller = caller, !.message = message,
                                 !.exclude = exclude_user]
       IN IF room_id \in Dicts
          THEN Step(k, Finished(t, "TypeError"), Registry)
          ELSE IF room_id \in DOMAIN room_connections
          THEN RoomLoop(k, [t EXCEPT
                   !.pending = room_members(Registry, room_id),
                   !.used = Cardinality(room_members(Registry, room_id)),
                   !.targets = {u \in room_connections[room_id] :
                                   u # exclude_user /\ u \in DOMAIN active_connections}])
          ELSE Step(k, Finished(t, "ok"), Registry)

BroadcastToRoom(k, room_id, exclude_user) ==
    BroadcastToRoomFrom(k, None, NoMessage, room_id, exclude_user)

\* -- the typed senders (manager.py:130-167) --
SendNotification(k, user_id, notification) ==
    SendPersonalMessageFrom(k, "send_notification",
        [type |-> "notification", data |-> notification, timestamp |-> utcnow],
        user_id)

SendProjectUpdate(k, room_id, update, exclude_user) ==
    BroadcastToRoomFrom(k, "send_project_update",
        [type |-> "project_update", data |-> update, timestamp |-> utcnow],
        room_id, exclude_user)

SendCommentUpdate(k, room_id, comment, exclude_user) ==
    BroadcastToRoomFrom(k, "send_comment_update",
        [type |-> "comment_update", data |-> comment, timestamp |-> utcnow],
        room_id, exclude_user)

Activities == {"typing"}

SendUserActivity(k, room_id, user_id, activity) ==
    BroadcastToRoomFrom(k, "send_user_activity",
        [type |-> "user_activity",
         data |-> [user_id |-> user_id, activity |-> activity, timestamp |-> utcnow]],
        room_id, user_id)

\* -- update_project's notification (projects.py:315-329): the room name is
\* passed in the position of the message, the payload dict in that of room_id --
Projects == {1, 2}

project_room(project_id) == IF project_id = 1 THEN "r1" ELSE "r2"

UpdateProject(k, project_id) ==
    \E payload \in Dicts :
        BroadcastToRoomFrom(k, "update_project", [text |-> project_room(project_id)],
                            payload, None)

\* -- broadcast (manager.py:113-128) --
AllLoop(k, t) ==
    IF Cardinality(DOMAIN active_connections) # t.used
    THEN Step(k, Finished(t, "RuntimeError"), Registry)
    ELSE IF t.pending = {} THEN Cleanup(k, t, FALSE)
    ELSE IF t.yielded = t.used THEN Step(k, Finished(t, "RuntimeError"), Registry)
    ELSE \E u \in t.pending :
            Step(k, Issue([t EXCEPT !.pending = @ \ {u}, !.yielded = @ + 1], u), Registry)

Broadcast(k) ==
    /\ NoneDone
    /\ tasks[k].pc = "idle"
    /\ AllLoop(k, [IdleTask EXCEPT !.op = "broadcast",
                                   !.pending = DOMAIN active_connections,
                                   !.used = Cardinality(DOMAIN active_connections),
                                   !.targets = DOMAIN active_connections])

\* -- handle_websocket_message (manager.py:185-221) --
\* the types of inbound messages: the three the handler knows, one it does not
\* know, and a text that is not JSON
Inbound == {"join_room", "leave_room", "ping", "bogus", "invalid_json"}

\* send_text(json.dumps({"type": type, ...})) is called on the WebSocket
\* registered for key u in reg
IssueWrite(t, reg, u, type) ==
    [t EXCEPT !.pc = "send", !.cur = u, !.curws = reg.ac[u], !.sent = @ \cup {u},
              !.writes = Append(@, [ws |-> reg.ac[u], type |-> type, outcome |-> "pending"])]

\* the send_text the coroutine is suspended in has returned (ok) or raised
Completed(t, ok) ==
    [t EXCEPT !.writes[Len(t.writes)].outcome = IF ok THEN "ok" ELSE "failed"]

\* the receive loop of the connection registered for user_id has read a
\* message from its WebSocket; the handler has not run yet
Receive(k, ws, user_id, inbound, room_id) ==
    /\ NoneDone
    /\ tasks[k].pc = "idle"
    /\ user_id \in DOMAIN active_connections
    /\ active_connections[user_id] = ws
    /\ Step(k, [IdleTask EXCEPT !.op = "handle_websocket_message", !.pc = "received",
                                !.user = user_id, !.ws = ws, !.inbound = inbound,
                                !.room = IF inbound \in {"join_room", "leave_room"}
                                         THEN room_id ELSE None],
            Registry)

\* the send_personal_message the handler awaits (manager.py:195, 204, 210)
Reply(k, t, reg, type) ==
    IF t.user \in DOMAIN reg.ac
    THEN Step(k, IssueWrite(t, reg, t.user, type), reg)
    ELSE Step(k, Finished(t, "ok"), reg)

HandleWebsocketMessageEcho(k) ==
    /\ NoneDone
    /\ tasks[k].pc = "received"
    /\ tasks[k].op = "handle_websocket_message"
    /\ LET t == tasks[k]
       IN CASE t.inbound = "join_room" ->
                 Reply(k, t, join_room(Registry, t.user, t.room), "room_joined")
            [] t.inbound = "leave_room" ->
                 Reply(k, t, leave_room(Registry, t.user, t.room), "room_left")
            [] t.inbound = "ping" ->
                 \E u \in DOMAIN active_connections :
                    Step(k, IssueWrite(t, Registry, u, "ping"), Registry)
            [] OTHER -> Step(k, Finished(t, "ok"), Registry)

\* the handler from json.loads up to its first send_text, or to its end
HandleWebsocketMessage(k) ==
    /\ NoneDone
    /\ tasks[k].pc = "received"
    /\ tasks[k].op = "handle_websocket_message"
    /\ LET t == tasks[k]
       IN CASE t.inbound = "join_room" ->
                 Reply(k, t, join_room(Registry, t.user, t.room), "room_joined")
            [] t.inbound = "leave_room" ->
                 Reply(k, t, leave_room(Registry, t.user, t.room), "room_left")
            [] t.inbound = "ping" -> Reply(k, t, Registry, "pong")
            \* unknown type: logger.warning (manager.py:215-216);
            \* not JSON: json.loads raises, logger.error (manager.py:218-219)
            [] OTHER -> Step(k, Finished(t, "ok"), Registry)

\* send_text of the reply has completed.  A failure is handled by
\* send_personal_message (manager.py:90-92); the KeyError of manager.py:92 for
\* an identity deregistered meanwhile is caught at manager.py:220.
HandleResume(k, ok) ==
    LET t == Completed(tasks[k], ok)
    IN IF ok THEN Step(k, Finished(t, "ok"), Registry)
       ELSE LET t1 == [t EXCEPT !.disconnected_users = @ \cup {t.cur}]
            IN IF t.user \in DOMAIN active_connections
               THEN Step(k, Finished(t1, "ok"),
                         disconnect(Registry, active_connections[t.user], t.user))
               ELSE Step(k, Finished(t1, "ok"), Registry)

\* -- the receive loop of websocket_endpoint and process_websocket_message
\* (endpoints/websockets.py:84-121, 124-188) --
\* The WebSocket of this endpoint is registered with app.core.websocket's
\* manager, not with the ConnectionManager of manager.py; it is written
\* directly.  Of the inbound types only those answered without a call into
\* that manager are drawn.
EndpointSocket == MaxFanTransports + 1
EndpointInbound == {"ping", "bogus", "invalid_json"}

\* `await websocket.send_text(...)` on the endpoint's own WebSocket
EndpointWrite(t, type, stage) ==
    [t EXCEPT !.pc = "send", !.curws = t.ws, !.stage = stage,
              !.writes = Append(@, [ws |-> t.ws, type |-> type, outcome |-> "pending"])]

\* receive_text has returned a message (endpoints/websockets.py:87)
EndpointReceive(k, inbound) ==
    /\ NoneDone
    /\ tasks[k].pc = "idle"
    /\ Step(k, [IdleTask EXCEPT !.op = "websocket_endpoint", !.pc = "received",
                                !.ws = EndpointSocket, !.inbound = inbound],
            Registry)

\* json.loads and process_websocket_message up to the first send_text
\* (endpoints/websockets.py:88-99, 166-171, 183-188)
ProcessWebsocketMessage(k) ==
    /\ NoneDone
    /\ tasks[k].pc = "received"
    /\ tasks[k].op = "websocket_endpoint"
    /\ LET t == tasks[k]
       IN CASE t.inbound = "invalid_json" -> Step(k, EndpointWrite(t, "error", "json_error"), Registry)
            [] t.inbound = "ping" -> Step(k, EndpointWrite(t, "pong", "process"), Registry)
            [] OTHER -> Step(k, EndpointWrite(t, "error", "process"), Registry)

\* send_text has completed.  result "ok": the loop is back at receive_text;
\* result "closed": the loop has ended and the finally clause has run.
\*  - a failure inside process_websocket_message is a WebSocketDisconnect
\*    (break, line 92-94) or another exception (error reply, line 100-105);
\*  - a failure inside an except clause of the loop leaves the loop for the
\*    outer handler (line 108-116), which writes once more, ignores a failure
\*    of that write and closes.
EndpointResume(k, ok) ==
    LET t == Completed(tasks[k], ok)
    IN CASE t.stage = "outer_except" -> Step(k, Finished(t, "closed"), Registry)
         [] t.stage # "outer_except" /\ ok -> Step(k, Finished(t, "ok"), Registry)
         [] t.stage = "process" /\ ~ok ->
              \/ Step(k, Finished(t, "closed"), Registry)
              \/ Step(k, EndpointWrite(t, "error", "inner_except"), Registry)
         [] OTHER -> Step(k, EndpointWrite(t, "error", "outer_except"), Registry)

\* -- send_text completes: it returns (ok) or raises --
SendTextReturns(k, ok) ==
    /\ NoneDone
    /\ tasks[k].pc = "send"
    /\ tasks[k].curws \notin stalled
    /\ LET t == tasks[k]
           t1 == IF ok THEN t
                 ELSE [t EXCEPT !.disconnected_users = @ \cup {t.cur}]
       IN CASE t.op = "send_personal_message" -> SendPersonalResume(k, ok)
            [] t.op = "broadcast_to_room" -> RoomLoop(k, t1)
            [] t.op = "broadcast" -> AllLoop(k, t1)
            [] t.op = "handle_websocket_message" -> HandleResume(k, ok)
            [] t.op = "websocket_endpoint" -> EndpointResume(k, ok)

\* -- disconnect and leave_room called on their own: they have no suspension
\* point, the call returns in the step that makes it --
DisconnectCall(k, ws, user_id) ==
    /\ NoneDone
    /\ tasks[k].pc = "idle"
    /\ transport_status[ws] # "fresh"
    /\ Step(k, Finished([IdleTask EXCEPT !.op = "disconnect", !.user = user_id, !.ws = ws,
                                         !.before = Registry], "ok"),
            disconnect(Registry, ws, user_id))

\* join_room called on its own, for an identity that holds a connection
JoinRoomCall(k, user_id, room_id) ==
    /\ NoneDone
    /\ tasks[k].pc = "idle"
    /\ user_id \in DOMAIN active_connections
    /\ Step(k, Finished([IdleTask EXCEPT !.op = "join_room", !.user = user_id,
                                         !.room = room_id, !.before = Registry], "ok"),
            join_room(Registry, user_id, room_id))

LeaveRoomCall(k, user_id, room_id) ==
    /\ NoneDone
    /\ tasks[k].pc = "idle"
    /\ Step(k, Finished([IdleTask EXCEPT !.op = "leave_room", !.user = user_id,
                                         !.room = room_id, !.before = Registry], "ok"),
            leave_room(Registry, user_id, room_id))

\* -- the /ws endpoint of main.py (main.py:275-278) --
\* what the client presents when it opens the WebSocket
Tokens == {"missing", "invalid", "other_user", "valid"}

\* websocket_endpoint of main.py: `await websocket_manager.connect(websocket)`
\* and return.  The token is not looked at, connect gets no user_id, and the
\* endpoint has no receive loop and no disconnect.
MainWebsocketEndpoint(k, token, limit) ==
    /\ NoneDone
    /\ tasks[k].pc = "idle"
    /\ Fresh # {}
    /\ NextFresh <= limit
    /\ LET reg2 == connect(Registry, NextFresh, None)
           t == [IdleTask EXCEPT !.op = "main.websocket_endpoint", !.ws = NextFresh,
                                 !.token = token]
       IN /\ active_connections' = reg2.ac
          /\ user_rooms' = reg2.ur
          /\ room_connections' = reg2.rc
          /\ transport_status' = NewStatus(transport_status, reg2.ac, "superseded")
          /\ transport_key' = [transport_key EXCEPT ![NextFresh] = connect_key(Registry, None)]
          /\ \E ahead \in BOOLEAN :
                tasks' = [j \in Tasks |-> IF j = k THEN Finished(t, "ok")
                                          ELSE Observe(tasks[j], Registry, reg2, ahead)]
          /\ UNCHANGED stalled

\* the caller has the result; the record of the call is dropped
Return(k) ==
    /\ tasks[k].pc = "done"
    /\ tasks' = [tasks EXCEPT ![k] = IdleTask]
    /\ UNCHANGED <<active_connections, user_rooms, room_connections, transport_status,
                   transport_key, stalled>>

Init ==
    /\ active_connections = EmptyMap
    /\ user_rooms = EmptyMap
    /\ room_connections = EmptyMap
    /\ transport_status = [t \in Transports |-> "fresh"]
    /\ transport_key = [t \in Transports |-> None]
    /\ stalled = {}
    /\ tasks = [k \in Tasks |-> IdleTask]

\* ---- Spec: two users, registry operations interleaved with the coroutines ----
Next ==
    \/ \E u \in Users : Connect(u, MaxTransports, MaxInterleave)
    \/ \E ws \in Transports, u \in Users : Disconnect(ws, u, MaxInterleave)
    \/ \E u \in Users, r \in Rooms : JoinRoom(u, r, MaxInterleave)
    \/ \E u \in Users, r \in Rooms : LeaveRoom(u, r, MaxInterleave)
    \/ \E k \in Tasks, u \in Users : SendPersonalMessage(k, u)
    \/ \E k \in Tasks, r \in Rooms, x \in Users \cup {None} : BroadcastToRoom(k, r, x)
    \/ \E k \in Tasks : Broadcast(k)
    \/ \E k \in Tasks, ok \in BOOLEAN : SendTextReturns(k, ok)
    \/ \E k \in Tasks : Return(k)

Spec == Init /\ [][Next]_vars

\* ---- SpecFan: three users who join rooms while connected; one call at a
\* time (nothing else runs while a coroutine is suspended) ----
NextFan ==
    \/ \E u \in FanUsers : Connect(u, MaxFanTransports, 0)
    \/ \E u \in FanUsers, r \in Rooms : JoinRoomConnected(u, r, 0)
    \/ \E k \in Tasks, r \in Rooms : BroadcastToRoom(k, r, None)
    \/ \E k \in Tasks, ok \in BOOLEAN : SendTextReturns(k, ok)
    \/ \E k \in Tasks : Return(k)

SpecFan == Init /\ [][NextFan]_vars

\* ---- SpecStall: peers may stop reading.  The event loop resumes a coroutine
\* whose send_text has completed, so the return of a send_text that can
\* complete is weakly fair. ----
NextStall ==
    \/ \E u \in Users : Connect(u, MaxTransports, 0)
    \/ \E u \in Users, r \in Rooms : JoinRoomConnected(u, r, 0)
    \/ \E ws \in Transports : Stall(ws)
    \/ \E k \in Tasks, r \in Rooms : BroadcastToRoom(k, r, None)
    \/ \E k \in Tasks : Broadcast(k)
    \/ \E k \in Tasks, ok \in BOOLEAN : SendTextReturns(k, ok)
    \/ \E k \in Tasks : Return(k)

SpecStall ==
    /\ Init
    /\ [][NextStall]_vars
    /\ \A k \in Tasks : WF_vars(\E ok \in BOOLEAN : SendTextReturns(k, ok))

\* ---- SpecCalls: two users who join rooms while connected; one call at a
\* time, each call seen with the registry it started from ----
NextCalls ==
    \/ \E u \in Users : Connect(u, MaxTransports, 0)
    \/ \E u \in Users, r \in Rooms : JoinRoomConnected(u, r, 0)
    \/ \E k \in Tasks, ws \in Transports, u \in Users : DisconnectCall(k, ws, u)
    \/ \E k \in Tasks, u \in Users, r \in Rooms : JoinRoomCall(k, u, r)
    \/ \E k \in Tasks, u \in Users, r \in Rooms : LeaveRoomCall(k, u, r)
    \/ \E k \in Tasks, u \in Users : SendPersonalMessage(k, u)
    \/ \E k \in Tasks : Broadcast(k)
    \/ \E k \in Tasks, ok \in BOOLEAN : SendTextReturns(k, ok)
    \/ \E k \in Tasks : Return(k)

SpecCalls == Init /\ [][NextCalls]_vars

\* ---- SpecHandler: the inbound messages of connected identities, handled
\* while other coroutines connect and disconnect ----
NextHandler ==
    \/ \E u \in Users : Connect(u, MaxTransports, MaxInterleave)
    \/ \E ws \in Transports, u \in Users : Disconnect(ws, u, MaxInterleave)
    \/ \E k \in Tasks, ws \in Transports, u \in Users, i \in Inbound, r \in Rooms :
          Receive(k, ws, u, i, r)
    \/ \E k \in Tasks : HandleWebsocketMessage(k)
    \/ \E k \in Tasks, i \in EndpointInbound : EndpointReceive(k, i)
    \/ \E k \in Tasks : ProcessWebsocketMessage(k)
    \/ \E k \in Tasks, ok \in BOOLEAN : SendTextReturns(k, ok)
    \/ \E k \in Tasks : Return(k)

SpecHandler == Init /\ [][NextHandler]_vars

\* ---- SpecAnon: the connections of main.py's /ws endpoint, which are all
\* anonymous, their disconnects, and broadcasts ----
NextAnon ==
    \/ \E k \in Tasks, token \in Tokens : MainWebsocketEndpoint(k, token, MaxFanTransports)
    \/ \E k \in Tasks, ws \in Transports : DisconnectCall(k, ws, None)
    \/ \E k \in Tasks : Broadcast(k)
    \/ \E k \in Tasks, ok \in BOOLEAN : SendTextReturns(k, ok)
    \/ \E k \in Tasks : Return(k)

SpecAnon == Init /\ [][NextAnon]_vars

\* ---- SpecSenders: the typed senders and update_project's notification,
\* one call at a time ----
NextSenders ==
    \/ \E u \in Users : Connect(u, MaxTransports, 0)
    \/ \E u \in Users, r \in Rooms : JoinRoomConnected(u, r, 0)
    \/ \E k \in Tasks, u \in Users, n \in Payloads : SendNotification(k, u, n)
    \/ \E k \in Tasks, r \in Rooms, d \in Payloads, x \in Users \cup {None} :
          SendProjectUpdate(k, r, d, x)
    \/ \E k \in Tasks, r \in Rooms, d \in Payloads, x \in Users \cup {None} :
          SendCommentUpdate(k, r, d, x)
    \/ \E k \in Tasks, r \in Rooms, u \in Users, a \in Activities :
          SendUserActivity(k, r, u, a)
    \/ \E k \in Tasks, p \in Projects : UpdateProject(k, p)
    \/ \E k \in Tasks, ok \in BOOLEAN : SendTextReturns(k, ok)
    \/ \E k \in Tasks : Return(k)

SpecSenders == Init /\ [][NextSenders]_vars

\* ---- SpecReap: three users, each on one transport; sends and broadcasts
\* whose writes may fail, one call at a time ----
NextReap ==
    \/ \E u \in FanUsers : Connect(u, MaxReapTransports, 0)
    \/ \E u \in FanUsers, r \in Rooms : JoinRoomConnected(u, r, 0)
    \/ \E k \in Tasks, u \in FanUsers : SendPersonalMessage(k, u)
    \/ \E k \in Tasks, r \in Rooms, x \in FanUsers \cup {None} : BroadcastToRoom(k, r, x)
    \/ \E k \in Tasks : Broadcast(k)
    \/ \E k \in Tasks, ok \in BOOLEAN : SendTextReturns(k, ok)
    \/ \E k \in Tasks : Return(k)

SpecReap == Init /\ [][NextReap]_vars

\* ======================= properties =======================

InNoRoom(u) == \A r \in DOMAIN room_connections : u \notin room_connections[r]

\* coroutine k takes a step (a call, or a return of send_text)
TaskStep(k) ==
    /\ tasks'[k] # tasks[k]
    /\ tasks'[k].pc \in {"send", "done"}
    /\ tasks[k].pc = "send" => tasks'[k].mutations = tasks[k].mutations

\* coroutine k calls send_text in this step
Issued(k) == TaskStep(k) /\ tasks'[k].pc = "send"

\* connect(ws, u) runs in this step
JustConnected(u) ==
    \E t \in Transports : transport_status[t] = "fresh" /\ transport_key'[t] = u

\* the last WebSocket that was passed to connect for key u
LatestOf(keys, u) ==
    CHOOSE t \in Transports :
        /\ keys[t] = u
        /\ \A o \in Transports : keys[o] = u => o <= t

\* C1: an identity without an entry in active_connections has no rooms and is
\* a member of no room.
C1_NoDanglingMembership ==
    \A i \in FanUsers :
        i \notin DOMAIN active_connections => get_user_rooms(i) = {} /\ InNoRoom(i)

\* C2: when A, B, C are the connected members of a room and only B's write
\* fails, broadcast_to_room has written to A and C, and afterwards B is not
\* registered and is a member of no room.
C2_FanOutIsolation ==
    \A k \in Tasks :
        LET t == tasks[k]
        IN (/\ t.pc = "done" /\ t.op = "broadcast_to_room" /\ t.mutations = 0
            /\ t.targets = {"A", "B", "C"} /\ t.disconnected_users = {"B"})
           => /\ {"A", "C"} \subseteq t.sent
              /\ "B" \notin DOMAIN active_connections
              /\ InNoRoom("B")

\* C3: a send or broadcast during which nothing else ran returns normally,
\* whichever of its writes failed.
C3_NeverRaises ==
    \A k \in Tasks :
        (tasks[k].pc = "done" /\ tasks[k].mutations = 0) => tasks[k].result = "ok"

\* C4: a broadcast during which the registry was changed by other coroutines
\* (and none of whose writes failed) completes without error and has written
\* to every target of its start that is still connected.
C4_StableSnapshot ==
    \A k \in Tasks :
        LET t == tasks[k]
        IN (/\ t.pc = "done" /\ t.op \in {"broadcast_to_room", "broadcast"}
            /\ t.mutations > 0 /\ t.disconnected_users = {})
           => /\ t.result = "ok"
              /\ \A u \in t.targets : u \in DOMAIN active_connections => u \in t.sent

\* C5: a broadcast that has started eventually returns, also when the
\* send_text of one of its targets never completes.
C5_BroadcastReturns ==
    \A k \in Tasks :
        (tasks[k].pc = "send" /\ tasks[k].op \in {"broadcast_to_room", "broadcast"})
        ~> (tasks[k].pc = "done")

\* C6: a connect for a registered identity leaves the connection count as it
\* is and registers the new WebSocket, and every write for an identity goes to
\* the WebSocket of the latest connect for it.
C6_ReconnectSupersedes ==
    [][ /\ \A u \in Users :
              (JustConnected(u) /\ u \in DOMAIN active_connections)
              => /\ get_connection_count' = get_connection_count
                 /\ transport_status[active_connections'[u]] = "fresh"
        /\ \A k \in Tasks :
              Issued(k) => tasks'[k].curws = LatestOf(transport_key', tasks'[k].cur)
      ]_vars

C6_Witness ==
    \E k \in Tasks :
        /\ tasks[k].pc = "send" /\ tasks[k].cur = "A" /\ tasks[k].curws = 2
        /\ transport_key[1] = "A" /\ transport_status[1] = "superseded"
        /\ get_connection_count = 1

\* C7: right after connect(t, u), u has no rooms and is a member of no room.
C7_ConnectStartsEmpty ==
    [][ \A u \in FanUsers :
            JustConnected(u) => (get_user_rooms(u) = {} /\ InNoRoom(u))' ]_vars

\* C8: no room entry maps to an empty set.
C8_NoGhostRooms == \A r \in DOMAIN room_connections : room_connections[r] # {}

C8_Witness ==
    \E k \in Tasks :
        /\ tasks[k].pc = "done" /\ tasks[k].op = "broadcast_to_room"
        /\ tasks[k].disconnected_users # {}
        /\ tasks[k].room \notin DOMAIN room_connections
        /\ DOMAIN room_connections # {}

\* C9: broadcast_to_room with exclude_user = x never writes to x, changes
\* neither x's registration nor x's memberships, and (nothing else running)
\* has written to every other connected member when it ends.
C9_Exclusion ==
    [][ \A k \in Tasks, x \in Users :
               (TaskStep(k) /\ tasks'[k].op = "broadcast_to_room" /\ tasks'[k].exclude = x)
               => /\ Issued(k) => tasks'[k].cur # x
                  /\ (x \in DOMAIN active_connections) = (x \in DOMAIN active_connections')
                  /\ x \in DOMAIN active_connections => active_connections'[x] = active_connections[x]
                  /\ get_user_rooms(x)' = get_user_rooms(x)
                  /\ \A r \in Rooms : (x \in get_room_users(r)') = (x \in get_room_users(r))
                  /\ (tasks'[k].pc = "done" /\ tasks'[k].mutations = 0)
                     => tasks'[k].sent = tasks'[k].targets
      ]_vars

C9_Witness ==
    \E k \in Tasks :
        /\ tasks[k].pc = "done" /\ tasks[k].op = "broadcast_to_room"
        /\ tasks[k].exclude = "A" /\ tasks[k].sent = {"B"}
        /\ "A" \in get_room_users(tasks[k].room)
        /\ "A" \in DOMAIN active_connections

\* C10: one broadcast_to_room call (nothing else running) writes exactly once
\* to each connected member of the room at the time of the call and to nobody
\* else.
C10_ExactlyOnce ==
    \A k \in Tasks :
        LET t == tasks[k]
        IN (t.op = "broadcast_to_room" /\ t.mutations = 0)
           => /\ t.resent = {}
              /\ t.sent \subseteq t.targets
              /\ t.pc = "done" => t.sent = t.targets

C10_Witness ==
    \E k \in Tasks :
        /\ tasks[k].pc = "done" /\ tasks[k].op = "broadcast_to_room"
        /\ tasks[k].result = "ok" /\ tasks[k].exclude = None
        /\ tasks[k].sent = {"A"} /\ tasks[k].resent = {}
        /\ get_room_users(tasks[k].room) = {"A"}
        /\ "B" \in DOMAIN active_connections

\* ---- a finished call seen with the registry it started from ----
\* get_room_users and get_user_rooms on a registry value
Members(reg, r) == IF r \in DOMAIN reg.rc THEN reg.rc[r] ELSE {}
RoomsOf(reg, u) == IF u \in DOMAIN reg.ur THEN reg.ur[u] ELSE {}

\* identity v has in reg2 the registration and the memberships it has in reg
SameFor(reg, reg2, v) ==
    /\ (v \in DOMAIN reg.ac) = (v \in DOMAIN reg2.ac)
    /\ v \in DOMAIN reg.ac => reg2.ac[v] = reg.ac[v]
    /\ (v \in DOMAIN reg.ur) = (v \in DOMAIN reg2.ur)
    /\ RoomsOf(reg2, v) = RoomsOf(reg, v)
    /\ \A r \in Rooms : (v \in Members(reg2, r)) = (v \in Members(reg, r))

\* C11: disconnect of a connected identity u removes u's registration, removes
\* u from the member set of every room, leaves no room with an empty member
\* set, and leaves the registration and memberships of every other identity
\* as they were.
C11_DisconnectCleans ==
    \A k \in Tasks :
        LET t == tasks[k]
        IN (t.pc = "done" /\ t.op = "disconnect" /\ t.user \in DOMAIN t.before.ac)
           => /\ t.user \notin DOMAIN active_connections
              /\ get_user_rooms(t.user) = {}
              /\ InNoRoom(t.user)
              /\ \A r \in DOMAIN room_connections : room_connections[r] # {}
              /\ \A v \in Users \ {t.user} : SameFor(t.before, Registry, v)

\* C12: disconnect for an identity without a registration changes nothing in
\* active_connections, user_rooms and room_connections and raises nothing,
\* whatever WebSocket is passed with it.
C12_DisconnectIdempotent ==
    \A k \in Tasks :
        LET t == tasks[k]
        IN (t.pc = "done" /\ t.op = "disconnect" /\ t.user \notin DOMAIN t.before.ac)
           => /\ Registry = t.before
              /\ t.result = "ok"

\* C13: after leave_room(u, r) a second leave_room(u, r) changes nothing, and
\* a leave_room(u, r) for a u that is not a member of r (r never joined, r
\* not existing, u unknown) changes nothing; neither raises.
C13_LeaveRoomIdempotent ==
    \A k \in Tasks :
        LET t == tasks[k]
        IN (t.pc = "done" /\ t.op = "leave_room")
           => /\ t.result = "ok"
              /\ leave_room(Registry, t.user, t.room) = Registry
              /\ (t.user \notin Members(t.before, t.room) /\ t.room \notin RoomsOf(t.before, t.user))
                 => Registry = t.before

C13_Witness ==
    \E k \in Tasks :
        /\ tasks[k].pc = "done" /\ tasks[k].op = "leave_room"
        /\ tasks[k].user = "A" /\ tasks[k].room = "r1"
        /\ Members(tasks[k].before, "r1") = {"A"}
        /\ "r1" \notin DOMAIN room_connections
        /\ get_user_rooms("A") = {"r2"}

C15_SendToUnregistered ==
    [][ \A k \in Tasks, u \in Users :
            (/\ tasks[k].pc = "idle" /\ tasks'[k].op = "send_personal_message"
             /\ tasks'[k].user = u /\ u \notin DOMAIN active_connections)
            => /\ tasks'[k].pc = "done"
               /\ tasks'[k].result = "ok"
               /\ tasks'[k].sent = {}
               /\ Registry' = Registry
               /\ transport_status' = transport_status
      ]_vars

C15_Witness ==
    \E k \in Tasks :
        /\ tasks[k].pc = "done" /\ tasks[k].op = "send_personal_message"
        /\ tasks[k].user = "A" /\ tasks[k].sent = {}
        /\ "A" \notin DOMAIN active_connections
        /\ get_room_users("r1") = {"B"}
        /\ "B" \in DOMAIN active_connections

\* C16: a broadcast (nothing else running) has written exactly once to every
\* connection registered at the call, whichever writes failed, and afterwards
\* exactly the connections whose write failed are deregistered, and those are
\* in no room and have no rooms.
C16_BroadcastAll ==
    \A k \in Tasks :
        LET t == tasks[k]
        IN (t.pc = "done" /\ t.op = "broadcast" /\ t.mutations = 0)
           => /\ t.result = "ok"
              /\ t.sent = t.targets
              /\ t.resent = {}
              /\ DOMAIN active_connections = t.targets \ t.disconnected_users
              /\ \A u \in t.disconnected_users : get_user_rooms(u) = {} /\ InNoRoom(u)

\* ---- inbound messages ----
\* the record t is of a message handler
IsHandler(t) == t.op \in {"handle_websocket_message", "websocket_endpoint"}

\* the connection the message of t came from is still the registered one
\* (the endpoint's WebSocket is its own)
SenderConnected(t) ==
    \/ t.op = "websocket_endpoint"
    \/ /\ t.user \in DOMAIN active_connections
       /\ active_connections[t.user] = t.ws

NoWriteFailed(t) == \A i \in 1..Len(t.writes) : t.writes[i].outcome # "failed"

\* C17: when a join_room(u, r) issued by connected u and a disconnect of u
\* have both completed, in either order, u has no rooms and is a member of no
\* room.
C17_JoinDisconnectRace ==
    \A k \in Tasks :
        LET t == tasks[k]
        IN (/\ t.pc = "done" /\ t.op = "handle_websocket_message"
            /\ t.inbound = "join_room" /\ t.user \notin DOMAIN active_connections)
           => get_user_rooms(t.user) = {} /\ InNoRoom(t.user)

\* C18: handle_websocket_message for a message of unknown type from a
\* connected sender has written exactly one message, of type "error", to the
\* sender's WebSocket.
C18_UnknownTypeError ==
    \A k \in Tasks :
        LET t == tasks[k]
        IN (/\ t.pc = "done" /\ t.op = "handle_websocket_message"
            /\ t.inbound = "bogus" /\ SenderConnected(t))
           => /\ Len(t.writes) = 1
              /\ t.writes[1].ws = t.ws
              /\ t.writes[1].type = "error"

\* C19: a message that is not JSON is answered by exactly one "error" message
\* on the WebSocket it came from and by no other write, and the handler
\* returns normally (the receive loop is back at receive_text).
C19_InvalidJsonReported ==
    \A k \in Tasks :
        LET t == tasks[k]
        IN (/\ t.pc = "done" /\ IsHandler(t) /\ t.inbound = "invalid_json"
            /\ SenderConnected(t) /\ NoWriteFailed(t))
           => /\ t.writes = <<[ws |-> t.ws, type |-> "error", outcome |-> "ok"]>>
              /\ t.result = "ok"

\* C20: the handler of a ping from connected u1 calls send_text exactly once,
\* with a "pong", on u1's WebSocket, and when that write returns the handler
\* ends without another write; neither step changes the registry.
C20_PingPong ==
    [][ \A k \in Tasks :
            LET t == tasks[k]
                t2 == tasks'[k]
                own == IF t.op = "websocket_endpoint" THEN t.ws
                       ELSE active_connections[t.user]
            IN (TaskStep(k) /\ IsHandler(t) /\ t.inbound = "ping")
               => /\ (t.pc = "received"
                      /\ (t.op = "websocket_endpoint" \/ t.user \in DOMAIN active_connections))
                     => /\ t2.pc = "send"
                        /\ t2.writes = <<[ws |-> own, type |-> "pong", outcome |-> "pending"]>>
                        /\ Registry' = Registry
                  /\ (t.pc = "send" /\ Len(t.writes) = 1 /\ t2.writes[1].outcome = "ok")
                     => /\ t2.pc = "done"
                        /\ t2.result = "ok"
                        /\ Len(t2.writes) = 1
                        /\ Registry' = Registry
      ]_vars

C20_Witness ==
    \E k \in Tasks :
        /\ tasks[k].pc = "done" /\ tasks[k].op = "handle_websocket_message"
        /\ tasks[k].inbound = "ping" /\ tasks[k].user = "A"
        /\ "A" \in DOMAIN active_connections
        /\ tasks[k].writes = <<[ws |-> active_connections["A"], type |-> "pong", outcome |-> "ok"]>>
        /\ "B" \in DOMAIN active_connections

\* ---- endpoints ----
\* C21: once the endpoint task that called connect for a WebSocket has ended,
\* that WebSocket is registered no longer.
C21_NoRegistrationOutlivesEndpoint ==
    \A k \in Tasks :
        LET t == tasks[k]
        IN (t.pc = "done" /\ t.op = "main.websocket_endpoint")
           => t.ws \notin Range(active_connections)

\* C22: a WebSocket an endpoint has registered was opened with a token that
\* is valid for the requested identity.
C22_ConnectOnlyAuthenticated ==
    \A k \in Tasks :
        LET t == tasks[k]
        IN (/\ t.pc = "done" /\ t.op = "main.websocket_endpoint"
            /\ t.ws \in Range(active_connections))
           => t.token = "valid"

\* C28: an anonymous connect registers its WebSocket under a key that holds
\* no registration: the connection count grows by one and every WebSocket
\* that was registered stays registered.
C28_AnonymousConnectAdds ==
    [][ \A t \in Transports :
            (transport_status[t] = "fresh" /\ transport_status'[t] # "fresh")
            => /\ transport_key'[t] \notin DOMAIN active_connections
               /\ get_connection_count' = get_connection_count + 1
               /\ \A o \in Transports :
                     transport_status[o] = "registered" => transport_status'[o] = "registered"
      ]_vars

\* C23: after join_room(u, r) of a connected u that was not a member of r, a
\* leave_room(u, r) gives back the registry join_room started from; and after
\* any join_room(u, r) a second one changes nothing.
C23_LeaveUndoesJoin ==
    \A k \in Tasks :
        LET t == tasks[k]
        IN (t.pc = "done" /\ t.op = "join_room")
           => /\ t.result = "ok"
              /\ join_room(Registry, t.user, t.room) = Registry
              /\ t.user \notin Members(t.before, t.room)
                 => leave_room(Registry, t.user, t.room) = t.before

C23_Witness ==
    \E k \in Tasks :
        /\ tasks[k].pc = "done" /\ tasks[k].op = "join_room"
        /\ tasks[k].user = "A" /\ tasks[k].room = "r1"
        /\ Members(tasks[k].before, "r1") = {"B"}
        /\ get_room_users("r1") = {"A", "B"}
        /\ get_user_rooms("A") = {"r1", "r2"}

\* C24: every message that a typed sender of the manager (send_notification,
\* send_project_update, send_comment_update, send_user_activity) hands to
\* send_text is an envelope whose top-level fields are exactly type, data and
\* timestamp.
TypedSenders ==
    {"send_notification", "send_project_update", "send_comment_update", "send_user_activity"}

C24_EnvelopeFields ==
    \A k \in Tasks :
        LET t == tasks[k]
        IN (t.pc = "send" /\ t.caller \in TypedSenders)
           => DOMAIN t.message = {"type", "data", "timestamp"}

\* C30: when update_project has committed a change of project p, its call of
\* broadcast_to_room writes one project_updated event to every connected member
\* of the room of p and the handler returns without error.
C30_UpdateProjectNotifies ==
    \A k \in Tasks :
        LET t == tasks[k]
        IN (t.pc = "done" /\ t.caller = "update_project")
           => /\ t.result = "ok"
              /\ t.disconnected_users = {}
                 => \A u \in get_room_users(t.message.text) :
                        u \in DOMAIN active_connections => u \in t.sent

\* C25: a write failure is fatal for the failing connection only.  Every step
\* of a send or broadcast (the call, each return of send_text, the cleanup that
\* disconnects the identities whose write failed) leaves the registration and
\* the room memberships of every identity whose write did not fail (written
\* successfully, not attempted, or excluded) as they were.
C25_FailureIsLocal ==
    [][ \A k \in Tasks :
            TaskStep(k)
            => \A v \in FanUsers \ tasks'[k].disconnected_users :
                   SameFor(Registry, Registry', v) ]_vars

C25_Witness ==
    \E k \in Tasks :
        LET t == tasks[k]
        IN /\ t.pc = "done" /\ t.op = "broadcast_to_room" /\ t.result = "ok"
           /\ t.room = "r1" /\ t.exclude = "C"
           /\ t.disconnected_users = {"B"} /\ t.sent = {"A", "B"}
           /\ DOMAIN active_connections = {"A", "C"}
           /\ get_room_users("r1") = {"A", "C"}
           /\ get_user_rooms("C") = {"r1", "r2"}

\* C26: the two membership maps agree in every reachable state: room r is in
\* user_rooms[u] if and only if u is in room_connections[r].
C26_MapsAgree ==
    \A u \in FanUsers, r \in Rooms :
        (r \in get_user_rooms(u)) <=> (u \in get_room_users(r))

\* C27: a disconnect(t1, u) issued for a transport that connect(t2, u) has
\* superseded leaves u registered with t2 and leaves u's memberships in place.
C27_LateDisconnectKeepsNewer ==
    \A k \in Tasks :
        LET t == tasks[k]
        IN (/\ t.pc = "done" /\ t.op = "disconnect"
            /\ t.user \in DOMAIN t.before.ac
            /\ t.before.ac[t.user] # t.ws
            /\ transport_key[t.ws] = t.user)
           => SameFor(t.before, Registry, t.user)

\* C29: when identity u has been deregistered by another coroutine while a
\* send_personal_message or a broadcast was suspended in u's send_text, and
\* that write then fails, the call returns normally: cleaning up the identity
\* that is already gone raises nothing.
C29_CleanupOfRemovedReturns ==
    [][ \A k \in Tasks :
            (/\ tasks[k].pc = "send"
             /\ tasks[k].cur \notin DOMAIN active_connections
             /\ tasks'[k].pc = "done"
             /\ tasks[k].cur \in tasks'[k].disconnected_users
             /\ tasks[k].cur \notin tasks[k].disconnected_users)
            => tasks'[k].result = "ok" ]_vars
====
